---- MODULE Spec2Model ----
(***************************************************************************)
(* Model of the data-acquisition pipeline of weather-display:              *)
(*   - parseISO8601, deserializeForecast, deserializeAirQuality            *)
(*     (platformio/src/api_response.cpp)                                   *)
(*   - isRetryableError, getForecast, getAirQuality                        *)
(*     (platformio/src/client_utils.cpp)                                   *)
(*                                                                         *)
(* Conventions of the model.                                               *)
(*   A JSON value is a tagged record: [t |-> "null"], [t |-> "int", v],    *)
(*   [t |-> "float", v10] (the value in tenths), [t |-> "str", s],         *)
(*   [t |-> "arr", e] (a sequence), [t |-> "obj", m] (a function from      *)
(*   keys).  A C float is kept in tenths.  A C string that is scanned      *)
(*   (a date/time text) is a sequence of tokens: [d |-> n] is a run of     *)
(*   decimal digits of value n, [c |-> x] is the single character x.       *)
(*   A message String is the sequence of the pieces it is concatenated     *)
(*   from, numbers being converted with ToString.                          *)
(***************************************************************************)
EXTENDS Integers, Sequences, FiniteSets, TLC

VARIABLES
    API_RETRY_ATTEMPTS, \* config.h: the attempt budget the build was configured with
    fn,                 \* which function is (or was last) running
    pc,                 \* position of the running call
    attempt,            \* loop counter of the retry loop
    httpCode,           \* result of the last http.GET()
    errorType,          \* local String errorType
    payload,            \* local String payload (the body read by http.getString())
    error,              \* DeserializationError of the last deserialize call
    result,             \* value returned by the call
    errorMsg,           \* the caller's String &errorMsg
    forecast,           \* the caller's om_resp_forecast_t
    airQuality,         \* the caller's om_resp_air_quality_t
    open,               \* connections begun on the HTTPClient and not yet ended
    timeoutSet,         \* setTimeout was applied since the last http.begin
    begins, ends, gets, delays, \* calls of http.begin/http.end/http.GET/delay in this call
    errSets,            \* assignments errorMsg = ... made in this call
    retSite,            \* the return statement the call left through
    entry,              \* the caller's errorMsg and records when the call started
    hourlyWritten,      \* indices i of the stores r.hourly[i] of the last deserializeForecast
    dailyWritten,       \* indices i of the stores r.daily[i] of the last deserializeForecast
    isoInput,           \* argument of the last parseISO8601 call made on its own
    isoTm,              \* the struct tm of that call when it returned
    isoResult,          \* value that call returned
    events,             \* the calls of http.begin, http.setTimeout, http.GET, http.end
                        \* and delay made in this call, in order
    script,             \* outcomes the attempts of a scripted call are given, in order
    first               \* what the first of two scripted calls did, once it is noted

cfgVars    == <<API_RETRY_ATTEMPTS>>
callVars   == <<fn, pc, attempt, httpCode, errorType, payload, result, retSite, entry>>
countVars  == <<open, timeoutSet, begins, ends, gets, delays, errSets>>
parseVars  == <<error, hourlyWritten, dailyWritten>>
callerVars == <<errorMsg, forecast, airQuality>>
isoVars    == <<isoInput, isoTm, isoResult>>
eqVars     == <<script, first>>
vars == <<cfgVars, callVars, countVars, parseVars, callerVars, isoVars, events, eqVars>>

----------------------------------------------------------------------------
(* Program constants                                                        *)

OM_NUM_HOURLY == 48
OM_NUM_DAILY == 8
HTTP_CODE_OK == 200

----------------------------------------------------------------------------
(* Bounds of the model                                                      *)

\* largest configured attempt budget explored
MaxAttempts == 3
\* how many entries beyond the capacity the longest time array of a payload has
MaxExcess == 2

Min(a, b) == IF a < b THEN a ELSE b

----------------------------------------------------------------------------
(* JSON values and the ArduinoJson accessors the parser uses                *)

JNull == [t |-> "null"]
JInt(n) == [t |-> "int", v |-> n]
JFloat(n10) == [t |-> "float", v10 |-> n10]
JStr(s) == [t |-> "str", s |-> s]
JArr(e) == [t |-> "arr", e |-> e]
JObj(m) == [t |-> "obj", m |-> m]

\* doc["key"], obj["key"]: the member, or a null variant
Member(v, k) == IF v.t = "obj" THEN (IF k \in DOMAIN v.m THEN v.m[k] ELSE JNull) ELSE JNull

\* JsonObject x = variant: a null object unless the variant holds an object
AsObject(v) == IF v.t = "obj" THEN v ELSE JNull

\* JsonArray x = variant: a null array unless the variant holds an array
AsArray(v) == IF v.t = "arr" THEN v ELSE JNull

\* JsonArray::size(): 0 for a null array
Size(a) == IF a.t = "arr" THEN Len(a.e) ELSE 0

\* array[i]: the element, or a null variant past the end (i counts from 0)
Elem(a, i) == IF a.t = "arr" THEN (IF i >= 0 /\ i < Len(a.e) THEN a.e[i + 1] ELSE JNull) ELSE JNull

\* variant | 0.0f : the number as a float (in tenths), else the default
OrFloat(v, d10) == IF v.t = "float" THEN v.v10 ELSE IF v.t = "int" THEN 10 * v.v ELSE d10

\* mutant: a decimal is converted to an integer instead of giving the default
OrIntConverting(v, d) ==
    IF v.t = "int" THEN v.v ELSE IF v.t = "float" THEN v.v10 \div 10 ELSE d

\* variant | 0 : the number if it is stored as an integer, else the default
OrInt(v, d) == IF v.t = "int" THEN v.v ELSE d

\* variant | "text" : the string, else the default
OrStr(v, d) == IF v.t = "str" THEN v.s ELSE d

----------------------------------------------------------------------------
(* parseISO8601                                                             *)

IsDigits(tok) == "d" \in DOMAIN tok
IsChar(tok, x) == IF "c" \in DOMAIN tok THEN tok.c = x ELSE FALSE

\* one %d conversion at token p: an optional sign, then a run of digits
ScanInt(s, p) ==
    IF p <= Len(s) /\ IsDigits(s[p])
    THEN [ok |-> TRUE, val |-> s[p].d, next |-> p + 1]
    ELSE IF p + 1 <= Len(s) /\ (IsChar(s[p], "-") \/ IsChar(s[p], "+")) /\ IsDigits(s[p + 1])
    THEN [ok |-> TRUE, val |-> IF IsChar(s[p], "-") THEN 0 - s[p + 1].d ELSE s[p + 1].d,
          next |-> p + 2]
    ELSE [ok |-> FALSE, val |-> 0, next |-> p]

\* one literal character of the format at token p
ScanLit(s, p, x) == IF p <= Len(s) THEN IsChar(s[p], x) ELSE FALSE

\* the directives of the format "%d-%d-%dT%d:%d"
DateTimeFormat == <<"%d", "-", "%d", "-", "%d", "T", "%d", ":", "%d">>

\* sscanf(datetime, "%d-%d-%dT%d:%d", ...): the values converted, in order, up
\* to the first directive that does not match; its return value is their number.
\* st is the scan so far: p the next token of the text, k the next directive,
\* vals the values converted
Sscanf(s) ==
    LET scan[st \in [p : Nat, k : Nat, vals : Seq(Int)]] ==
            IF st.k > Len(DateTimeFormat) THEN st.vals
            ELSE IF DateTimeFormat[st.k] = "%d"
            THEN IF ScanInt(s, st.p).ok
                 THEN scan[[p |-> ScanInt(s, st.p).next, k |-> st.k + 1,
                            vals |-> Append(st.vals, ScanInt(s, st.p).val)]]
                 ELSE st.vals
            ELSE IF ScanLit(s, st.p, DateTimeFormat[st.k])
                 THEN scan[[p |-> st.p + 1, k |-> st.k + 1, vals |-> st.vals]]
                 ELSE st.vals
    IN  scan[[p |-> 1, k |-> 1, vals |-> <<>>]]

\* days from 1970-01-01 to the civil date y-m-d (proleptic Gregorian calendar)
DaysFromCivil(y, m, d) ==
    LET yy == IF m <= 2 THEN y - 1 ELSE y
        era == yy \div 400
        yoe == yy - era * 400
        mp == IF m > 2 THEN m - 3 ELSE m + 9
        doy == (153 * mp + 2) \div 5 + d - 1
        doe == yoe * 365 + yoe \div 4 - yoe \div 100 + doy
    IN  era * 146097 + doe - 719468

\* mktime(&tm) for a struct tm whose fields are in range: seconds since the
\* epoch of the calendar time, the local zone being the zone the fields are in
Mktime(tm) ==
    DaysFromCivil(tm.tm_year + 1900, tm.tm_mon + 1, tm.tm_mday) * 86400
        + tm.tm_hour * 3600 + tm.tm_min * 60 + tm.tm_sec

\* struct tm tm = {0}
tm_zero ==
    [tm_year |-> 0, tm_mon |-> 0, tm_mday |-> 0, tm_hour |-> 0, tm_min |-> 0, tm_sec |-> 0,
     tm_isdst |-> 0]

\* mutant: the month is stored as scanned, 1 .. 12
FillTmMonthFromOne(year, month, day, hour, minute) ==
    [tm_year |-> year - 1900, tm_mon |-> month, tm_mday |-> day, tm_hour |-> hour,
     tm_min |-> minute, tm_sec |-> 0, tm_isdst |-> -1]

\* the assignments to tm when the sscanf converted at least three values
FillTm(year, month, day, hour, minute) ==
    [tm_year |-> year - 1900, tm_mon |-> month - 1, tm_mday |-> day, tm_hour |-> hour,
     tm_min |-> minute, tm_sec |-> 0, tm_isdst |-> -1]

\* tm after the sscanf, vals being the values it converted: hour and minute keep
\* their initial values 12 and 0 unless converted
TmOfScan[vals \in Seq(Int)] ==
    IF Len(vals) >= 3
    THEN FillTm(vals[1], vals[2], vals[3], IF Len(vals) >= 4 THEN vals[4] ELSE 12,
                IF Len(vals) >= 5 THEN vals[5] ELSE 0)
    ELSE tm_zero

\* the value parseISO8601 returns after the sscanf converted vals
TimeOfScan[vals \in Seq(Int)] ==
    IF Len(vals) >= 3 THEN Mktime(TmOfScan[vals]) ELSE 0

parseISO8601(datetime) == TimeOfScan[Sscanf(datetime)]

----------------------------------------------------------------------------
(* Records of api_response.h                                                *)

om_current_zero ==
    [temp |-> 0, feels_like |-> 0, humidity |-> 0, pressure |-> 0, wind_speed |-> 0,
     wind_deg |-> 0, wind_gust |-> 0, uvi |-> 0, visibility |-> 0, weather_code |-> 0,
     is_day |-> 0, sunrise |-> 0, sunset |-> 0]

om_hourly_zero ==
    [dt |-> 0, temp |-> 0, humidity |-> 0, pop |-> 0, precipitation |-> 0,
     weather_code |-> 0, is_day |-> 0]

om_daily_zero ==
    [dt |-> 0, temp_min |-> 0, temp_max |-> 0, sunrise |-> 0, sunset |-> 0, pop |-> 0,
     precipitation |-> 0, weather_code |-> 0, uvi |-> 0]

\* an om_resp_forecast_t with static storage duration: zero-initialised
om_resp_forecast_zero ==
    [lat |-> 0, lon |-> 0, timezone |-> "", timezone_offset |-> 0,
     current |-> om_current_zero,
     hourly |-> [i \in 0 .. OM_NUM_HOURLY - 1 |-> om_hourly_zero],
     daily |-> [i \in 0 .. OM_NUM_DAILY - 1 |-> om_daily_zero]]

om_resp_air_quality_zero == [aqi |-> 0]

----------------------------------------------------------------------------
(* deserializeJson (ArduinoJson): a body is [syntax, root]; syntax says     *)
(* how the text lexes, root is the JSON value a valid text denotes          *)

deserializeJson(json) ==
    IF json.syntax = "valid" THEN [error |-> "Ok", doc |-> json.root]
    ELSE IF json.syntax = "empty" THEN [error |-> "EmptyInput", doc |-> JNull]
    ELSE IF json.syntax = "truncated" THEN [error |-> "IncompleteInput", doc |-> JNull]
    ELSE [error |-> "InvalidInput", doc |-> JNull]

\* mutant: the error of the parser is never seen
IsErrorNever(e) == FALSE

\* if (error): a DeserializationError converts to true unless it is Ok
IsError(e) == e # "Ok"

----------------------------------------------------------------------------
(* deserializeForecast                                                      *)

\* mutant: the capacity is not part of the loop condition
HourlyCondNoCapacity(i, size) == i < size

\* loop condition of the hourly loop
HourlyCond(i, size) == i < OM_NUM_HOURLY /\ i < size

\* loop condition of the daily loop
DailyCond(i, size) == i < OM_NUM_DAILY /\ i < size

\* for (int i = 0; cond; i++): the value of i when the hourly loop ends, which is
\* the number of times its body ran, with indices 0 .. i-1
RECURSIVE HourlyLoopEnd(_, _)
HourlyLoopEnd(i, size) == IF HourlyCond(i, size) THEN HourlyLoopEnd(i + 1, size) ELSE i

RECURSIVE DailyLoopEnd(_, _)
DailyLoopEnd(i, size) == IF DailyCond(i, size) THEN DailyLoopEnd(i + 1, size) ELSE i

\* body of the hourly loop: the entry stored at index i
HourlyEntry(hourly, i) ==
    [dt |-> parseISO8601(OrStr(Elem(AsArray(Member(hourly, "time")), i), <<>>)),
     temp |-> OrFloat(Elem(AsArray(Member(hourly, "temperature_2m")), i), 0),
     humidity |-> OrInt(Elem(AsArray(Member(hourly, "relative_humidity_2m")), i), 0),
     pop |-> OrFloat(Elem(AsArray(Member(hourly, "precipitation_probability")), i), 0),
     precipitation |-> OrFloat(Elem(AsArray(Member(hourly, "precipitation")), i), 0),
     weather_code |-> OrInt(Elem(AsArray(Member(hourly, "weather_code")), i), 0),
     is_day |-> OrInt(Elem(AsArray(Member(hourly, "is_day")), i), 1)]

\* body of the daily loop: the entry stored at index i
DailyEntry(daily, i) ==
    [dt |-> parseISO8601(OrStr(Elem(AsArray(Member(daily, "time")), i), <<>>)),
     temp_max |-> OrFloat(Elem(AsArray(Member(daily, "temperature_2m_max")), i), 0),
     temp_min |-> OrFloat(Elem(AsArray(Member(daily, "temperature_2m_min")), i), 0),
     sunrise |-> parseISO8601(OrStr(Elem(AsArray(Member(daily, "sunrise")), i), <<>>)),
     sunset |-> parseISO8601(OrStr(Elem(AsArray(Member(daily, "sunset")), i), <<>>)),
     pop |-> OrFloat(Elem(AsArray(Member(daily, "precipitation_probability_max")), i), 0),
     precipitation |-> OrFloat(Elem(AsArray(Member(daily, "precipitation_sum")), i), 0),
     weather_code |-> OrInt(Elem(AsArray(Member(daily, "weather_code")), i), 0),
     uvi |-> OrFloat(Elem(AsArray(Member(daily, "uv_index_max")), i), 0)]

\* mutant: the loop also stops at the end of the temperature array
HourlyLoopShortestSibling(r, hourly) ==
    LET n == Min(HourlyLoopEnd(0, Size(AsArray(Member(hourly, "time")))),
                 Size(AsArray(Member(hourly, "temperature_2m"))))
    IN  [a |-> [i \in DOMAIN r.hourly |->
                   IF i < n THEN HourlyEntry(hourly, i) ELSE r.hourly[i]],
         w |-> 0 .. n - 1]

\* the hourly loop: the array r.hourly after it, and the indices of its stores
\* r.hourly[i] (a store lands in the array when its index is inside it)
HourlyLoop(r, hourly) ==
    LET n == HourlyLoopEnd(0, Size(AsArray(Member(hourly, "time"))))
    IN  [a |-> [i \in DOMAIN r.hourly |->
                   IF i < n THEN HourlyEntry(hourly, i) ELSE r.hourly[i]],
         w |-> 0 .. n - 1]

\* the daily loop: the array r.daily after it, and the indices of its stores
DailyLoop(r, daily) ==
    LET n == DailyLoopEnd(0, Size(AsArray(Member(daily, "time"))))
    IN  [a |-> [i \in DOMAIN r.daily |->
                   IF i < n THEN DailyEntry(daily, i) ELSE r.daily[i]],
         w |-> 0 .. n - 1]

\* mutant: the float is rounded to the nearest integer
StaticCastIntRounding(x10) == (x10 + 5) \div 10

\* static_cast<int>(float) of a float (in tenths) inside the range of int: the
\* fraction is discarded, towards zero
StaticCastInt(x10) == IF x10 >= 0 THEN x10 \div 10 ELSE 0 - ((0 - x10) \div 10)

\* root level and current weather
RootAndCurrent(r, doc) ==
    LET current == AsObject(Member(doc, "current"))
    IN  [r EXCEPT
            !.lat = OrFloat(Member(doc, "latitude"), 0),
            !.lon = OrFloat(Member(doc, "longitude"), 0),
            !.timezone = OrStr(Member(doc, "timezone"), "UTC"),
            !.timezone_offset = OrInt(Member(doc, "utc_offset_seconds"), 0),
            !.current.temp = OrFloat(Member(current, "temperature_2m"), 0),
            !.current.feels_like = OrFloat(Member(current, "apparent_temperature"), 0),
            !.current.humidity = OrInt(Member(current, "relative_humidity_2m"), 0),
            !.current.pressure = StaticCastInt(OrFloat(Member(current, "pressure_msl"), 0)),
            !.current.wind_speed = OrFloat(Member(current, "wind_speed_10m"), 0),
            !.current.wind_deg = OrInt(Member(current, "wind_direction_10m"), 0),
            !.current.wind_gust = OrFloat(Member(current, "wind_gusts_10m"), 0),
            !.current.uvi = OrFloat(Member(current, "uv_index"), 0),
            !.current.visibility = OrInt(Member(current, "visibility"), 10000),
            !.current.weather_code = OrInt(Member(current, "weather_code"), 0),
            !.current.is_day = OrInt(Member(current, "is_day"), 1)]

\* mutant: sunrise/sunset are not copied
CopySunOmitted(r) == r

\* copy sunrise/sunset from daily[0] to current
CopySun(r) ==
    [r EXCEPT !.current.sunrise = r.daily[0].sunrise,
              !.current.sunset = r.daily[0].sunset]

\* the result: the error returned, the record r afterwards, and the indices
\* of the hourly and daily stores made
deserializeForecast(json, r) ==
    LET parsed == deserializeJson(json)
    IN  IF IsError(parsed.error)
        THEN [error |-> parsed.error, r |-> r, hw |-> {}, dw |-> {}]
        ELSE LET h == HourlyLoop(r, AsObject(Member(parsed.doc, "hourly")))
                 d == DailyLoop(r, AsObject(Member(parsed.doc, "daily")))
             IN  [error |-> "Ok",
                  r |-> CopySun([RootAndCurrent(r, parsed.doc) EXCEPT
                                    !.hourly = h.a, !.daily = d.a]),
                  hw |-> h.w, dw |-> d.w]

----------
(* deserializeAirQuality                                                    *)

\* mutant: the index is limited to the range 0 .. 500 of the US AQI
deserializeAirQualityClamped(json, r) ==
    LET parsed == deserializeJson(json)
        current == AsObject(Member(parsed.doc, "current"))
        aqi == OrInt(Member(current, "us_aqi"), 0)
    IN  IF IsError(parsed.error)
        THEN [error |-> parsed.error, r |-> r]
        ELSE [error |-> "Ok",
              r |-> [r EXCEPT !.aqi = IF aqi > 500 THEN 500 ELSE IF aqi < 0 THEN 0 ELSE aqi]]

deserializeAirQuality(json, r) ==
    LET parsed == deserializeJson(json)
        current == AsObject(Member(parsed.doc, "current"))
    IN  IF IsError(parsed.error)
        THEN [error |-> parsed.error, r |-> r]
        ELSE [error |-> "Ok", r |-> [r EXCEPT !.aqi = OrInt(Member(current, "us_aqi"), 0)]]

----------------------------------------------------------------------------
(* Bodies the remote API is taken to send                                   *)

Digits(n) == [d |-> n]
Char(x) == [c |-> x]

\* the text YYYY-MM-DD
DateText(y, m, d) == <<Digits(y), Char("-"), Digits(m), Char("-"), Digits(d)>>

\* the text YYYY-MM-DDTHH:MM
DateTimeText(y, m, d, h, mi) ==
    DateText(y, m, d) \o <<Char("T"), Digits(h), Char(":"), Digits(mi)>>

\* a forecast body of generation g (g tells one body's values from another's)
\* with hlen hourly and dlen daily entries
ForecastRoot(hlen, dlen, g) ==
    JObj([latitude |-> JFloat(525 + g), longitude |-> JFloat(134 + g),
          timezone |-> JStr("Europe/Berlin"), utc_offset_seconds |-> JInt(3600 * g),
          current |-> JObj([temperature_2m |-> JFloat(200 + g),
                            apparent_temperature |-> JFloat(190 + g),
                            relative_humidity_2m |-> JInt(50 + g),
                            pressure_msl |-> JFloat(10130 + 9 * g),
                            wind_speed_10m |-> JFloat(100 + g),
                            wind_direction_10m |-> JInt(180 + g),
                            wind_gusts_10m |-> JFloat(150 + g),
                            weather_code |-> JInt(g), uv_index |-> JFloat(30 + g),
                            visibility |-> JInt(20000 + g), is_day |-> JInt(g % 2)]),
          hourly |-> JObj([
              time |-> JArr([i \in 1 .. hlen |->
                  JStr(DateTimeText(2024, g, 1 + (i - 1) \div 24, (i - 1) % 24, 0))]),
              temperature_2m |-> JArr([i \in 1 .. hlen |-> JFloat(100 * g + i)]),
              relative_humidity_2m |-> JArr([i \in 1 .. hlen |-> JInt(40 + g)]),
              precipitation_probability |-> JArr([i \in 1 .. hlen |-> JInt(10 * g)]),
              precipitation |-> JArr([i \in 1 .. hlen |-> JFloat(g)]),
              weather_code |-> JArr([i \in 1 .. hlen |-> JInt(60 + g)]),
              is_day |-> JArr([i \in 1 .. hlen |-> JInt(i % 2)])]),
          daily |-> JObj([
              time |-> JArr([i \in 1 .. dlen |-> JStr(DateText(2024, g, i))]),
              temperature_2m_max |-> JArr([i \in 1 .. dlen |-> JFloat(250 + g)]),
              temperature_2m_min |-> JArr([i \in 1 .. dlen |-> JFloat(50 + g)]),
              sunrise |-> JArr([i \in 1 .. dlen |->
                  JStr(DateTimeText(2024, g, i, 6, 30 + g))]),
              sunset |-> JArr([i \in 1 .. dlen |->
                  JStr(DateTimeText(2024, g, i, 18, 15 + g))]),
              precipitation_probability_max |-> JArr([i \in 1 .. dlen |-> JInt(20 * g)]),
              precipitation_sum |-> JArr([i \in 1 .. dlen |-> JFloat(5 * g)]),
              weather_code |-> JArr([i \in 1 .. dlen |-> JInt(70 + g)]),
              uv_index_max |-> JArr([i \in 1 .. dlen |-> JFloat(40 + g)])])])

ValidBody(root) == [syntax |-> "valid", root |-> root]

\* bodies that are not JSON
BadBodies == {[syntax |-> "invalid", root |-> JNull], [syntax |-> "empty", root |-> JNull]}

\* the lengths <<hourly, daily>> of the series of a body: none, fewer than the
\* capacity, exactly the capacity, more than the capacity
ForecastShapes ==
    {<<0, 0>>, <<2, 1>>, <<OM_NUM_HOURLY, OM_NUM_DAILY>>,
     <<OM_NUM_HOURLY + MaxExcess, OM_NUM_DAILY + MaxExcess>>}
Generations == {1, 2}

\* the body {} : every member is missing
EmptyObjectBody == ValidBody(JObj(<<>>))

ForecastBodies ==
    {ValidBody(ForecastRoot(sh[1], sh[2], g)) : sh \in ForecastShapes, g \in Generations}
        \cup {EmptyObjectBody}

AirQualityBodies ==
    {ValidBody(JObj([current |-> JObj([us_aqi |-> JInt(42)])])),
     ValidBody(JObj([current |-> JObj(<<>>)]))}

\* valid JSON texts whose root is not an object: null, 5, "text", [1]
NonObjectBodies ==
    {ValidBody(JNull), ValidBody(JInt(5)), ValidBody(JStr("text")),
     ValidBody(JArr(<<JInt(1)>>))}

\* a text that is no date: n/a
GarbageText == <<Char("n"), Char("/"), Char("a")>>

\* a forecast body whose members are there but of the wrong type
WronglyTypedRoot ==
    JObj([latitude |-> JStr("north"), longitude |-> JNull,
          timezone |-> JInt(1), utc_offset_seconds |-> JFloat(36005),
          current |-> JObj([temperature_2m |-> JStr("warm"),
                            apparent_temperature |-> JNull,
                            relative_humidity_2m |-> JFloat(505),
                            pressure_msl |-> JStr("high"),
                            wind_speed_10m |-> JArr(<<>>),
                            wind_direction_10m |-> JStr("N"),
                            wind_gusts_10m |-> JObj(<<>>),
                            weather_code |-> JFloat(15), uv_index |-> JStr("low"),
                            visibility |-> JStr("far"), is_day |-> JStr("yes")]),
          hourly |-> JObj([
              time |-> JArr(<<JStr(GarbageText), JInt(17), JStr(<<>>)>>),
              temperature_2m |-> JArr(<<JStr("warm"), JNull, JFloat(215)>>),
              relative_humidity_2m |-> JArr(<<JFloat(505), JStr("wet"), JInt(55)>>),
              precipitation_probability |-> JArr(<<JStr("high"), JNull, JInt(30)>>),
              precipitation |-> JArr(<<JNull, JStr("some"), JFloat(12)>>),
              weather_code |-> JArr(<<JFloat(15), JNull, JInt(3)>>),
              is_day |-> JArr(<<JStr("yes"), JFloat(5), JInt(0)>>)]),
          daily |-> JObj([
              time |-> JArr(<<JInt(20240115), JStr(GarbageText)>>),
              temperature_2m_max |-> JArr(<<JStr("hot"), JFloat(251)>>),
              temperature_2m_min |-> JArr(<<JNull, JFloat(51)>>),
              sunrise |-> JArr(<<JInt(6), JStr(<<>>)>>),
              sunset |-> JArr(<<JNull, JStr(GarbageText)>>),
              precipitation_probability_max |-> JArr(<<JStr("high"), JInt(40)>>),
              precipitation_sum |-> JArr(<<JNull, JFloat(7)>>),
              weather_code |-> JArr(<<JStr("rain"), JInt(61)>>),
              uv_index_max |-> JArr(<<JObj(<<>>), JFloat(45)>>)])])

\* a forecast body whose current, hourly and daily members are no objects
WrongSectionsRoot ==
    JObj([latitude |-> JFloat(525), current |-> JArr(<<JInt(1)>>),
          hourly |-> JStr("none"), daily |-> JInt(7)])

\* a forecast body whose sibling arrays are shorter or longer than the time
\* arrays of three hourly and two daily entries, or are missing
MismatchedRoot ==
    JObj([hourly |-> JObj([
              time |-> JArr([i \in 1 .. 3 |-> JStr(DateTimeText(2024, 3, 1, i, 0))]),
              temperature_2m |-> JArr(<<JFloat(111)>>),
              precipitation_probability |-> JArr([i \in 1 .. 5 |-> JInt(10 * i)]),
              precipitation |-> JArr(<<>>),
              weather_code |-> JArr(<<JInt(61), JInt(62)>>),
              is_day |-> JArr(<<JInt(0), JInt(0)>>)]),
          daily |-> JObj([
              time |-> JArr([i \in 1 .. 2 |-> JStr(DateText(2024, 3, i))]),
              temperature_2m_max |-> JArr(<<JFloat(251)>>),
              sunrise |-> JArr(<<JStr(DateTimeText(2024, 3, 1, 6, 30))>>),
              sunset |-> JArr(<<>>),
              precipitation_probability_max |-> JArr([i \in 1 .. 3 |-> JInt(20 * i)]),
              weather_code |-> JArr(<<JInt(71)>>),
              uv_index_max |-> JArr(<<JFloat(41), JFloat(42)>>)])])

\* values of current.pressure_msl: decimals on both sides of a half, below
\* zero, between -1 and 0, an integer, and no number
PressureValues ==
    {JFloat(10139), JFloat(10131), JFloat(0 - 10139), JFloat(0 - 5), JInt(1013),
     JStr("1013.9")}

\* forecast bodies that are JSON objects with members missing, wrongly typed or
\* of different lengths
PartialForecastBodies ==
    {ValidBody(WronglyTypedRoot), ValidBody(WrongSectionsRoot), ValidBody(MismatchedRoot)}
        \cup {ValidBody(JObj([current |-> JObj([pressure_msl |-> p])])) : p \in PressureValues}

\* air-quality bodies with an index outside 0 .. 500, without current, and with
\* an index that is no integer
PartialAirQualityBodies ==
    {ValidBody(JObj([current |-> JObj([us_aqi |-> JInt(900)])])),
     ValidBody(JObj([current |-> JObj([us_aqi |-> JInt(0 - 5)])])),
     ValidBody(JObj(<<>>)),
     ValidBody(JObj([current |-> JObj([us_aqi |-> JStr("good")])]))}

----------------------------------------------------------------------------
(* State after construction                                                 *)

NoBody == [syntax |-> "none", root |-> JNull]

\* nothing is noted of a first call
NoFirst == [fn |-> "none"]

\* the state after construction, but for the script
InitCall ==
    /\ API_RETRY_ATTEMPTS \in 0 .. MaxAttempts
    /\ fn = "none"
    /\ pc = "idle"
    /\ attempt = 0
    /\ httpCode = 0
    /\ errorType = <<>>
    /\ payload = NoBody
    /\ error = "Ok"
    /\ result = FALSE
    /\ errorMsg = <<>>
    /\ forecast = om_resp_forecast_zero
    /\ airQuality = om_resp_air_quality_zero
    /\ open = 0
    /\ timeoutSet = FALSE
    /\ begins = 0
    /\ ends = 0
    /\ gets = 0
    /\ delays = 0
    /\ errSets = 0
    /\ retSite = "none"
    /\ entry = [errorMsg |-> <<>>, forecast |-> om_resp_forecast_zero,
                airQuality |-> om_resp_air_quality_zero]
    /\ hourlyWritten = {}
    /\ dailyWritten = {}
    /\ isoInput = <<>>
    /\ isoTm = tm_zero
    /\ isoResult = 0
    /\ events = <<>>
    /\ first = NoFirst

\* no call is scripted: each attempt may have any outcome
Init == InitCall /\ script = <<>>

----------------------------------------------------------------------------
(* The fetch client                                                         *)

\* results of http.GET() taken: 200, other HTTP statuses, the client's error
\* codes the claims name, and codes outside the client's table
HttpCodes == {200, 404, 0, -1, -2, -3, -4, -5, -8, -9, -11}

\* readings of WiFi.RSSI()
RSSIValues == {-67}

\* bodies http.getString() returns to getForecast and to getAirQuality
FetchedForecastBodies ==
    {ValidBody(ForecastRoot(2, 1, g)) : g \in Generations} \cup BadBodies
FetchedAirQualityBodies == AirQualityBodies \cup BadBodies

\* mutant: a failure to send the header is taken for a transport failure
isRetryableErrorOrSendHeader(code) == code \in {-1, -2, -4, -5, -11}

isRetryableError(code) == code \in {-1, -4, -5, -11}

\* errorType as getForecast builds it from a code that is not HTTP_CODE_OK
getForecast_errorType(code) ==
    IF code > 0 THEN <<"HTTP ", ToString(code)>>
    ELSE IF code = -1 THEN <<"Connection Refused">>
    ELSE IF code = -2 THEN <<"Send Header Failed">>
    ELSE IF code = -3 THEN <<"Send Payload Failed">>
    ELSE IF code = -4 THEN <<"Not Connected">>
    ELSE IF code = -5 THEN <<"Connection Lost">>
    ELSE IF code = -6 THEN <<"No Stream">>
    ELSE IF code = -7 THEN <<"No HTTP Server">>
    ELSE IF code = -8 THEN <<"Too Less RAM">>
    ELSE IF code = -9 THEN <<"Encoding">>
    ELSE IF code = -10 THEN <<"Stream Write">>
    ELSE IF code = -11 THEN <<"Read Timeout">>
    ELSE <<"Unknown Error">>

\* mutant: every failure is retried while attempts are left
getForecast_shouldRetryAnyError(code, att, budget) == att < budget

\* the retry condition of getForecast
getForecast_shouldRetry(code, att, budget) == isRetryableError(code) /\ att < budget

\* mutant: the attempt count is appended whatever the attempt
getForecast_errorMsgAlwaysCount(type, rssi, att) ==
    type \o <<" RSSI:", ToString(rssi), "dBm">> \o <<" (after ", ToString(att), " attempts)">>

\* errorMsg of getForecast when it gives up after a code that is not HTTP_CODE_OK
getForecast_errorMsg(type, rssi, att) ==
    type \o <<" RSSI:", ToString(rssi), "dBm">>
         \o (IF att > 1 THEN <<" (after ", ToString(att), " attempts)">> ELSE <<>>)

\* errorMsg of getForecast when the body does not parse
getForecast_parseErrorMsg(err) == <<"JSON parse: ", err>>

\* the caller calls getForecast; the call sets up its client and its url and
\* starts the retry loop with attempt = 1
getForecast_Call ==
    /\ pc \in {"idle", "done"}
    /\ fn' = "getForecast"
    /\ pc' = "loop"
    /\ attempt' = 1
    /\ httpCode' = 0
    /\ errorType' = <<>>
    /\ payload' = NoBody
    /\ error' = "Ok"
    /\ result' = FALSE
    /\ retSite' = "none"
    /\ open' = 0
    /\ timeoutSet' = FALSE
    /\ begins' = 0
    /\ ends' = 0
    /\ gets' = 0
    /\ delays' = 0
    /\ errSets' = 0
    /\ entry' = [errorMsg |-> errorMsg, forecast |-> forecast, airQuality |-> airQuality]
    /\ hourlyWritten' = {}
    /\ dailyWritten' = {}
    /\ events' = <<>>
    /\ UNCHANGED <<isoVars, eqVars,
                   API_RETRY_ATTEMPTS, errorMsg, forecast, airQuality>>

\* the loop condition holds: the body runs
getForecast_LoopEnter ==
    /\ fn = "getForecast"
    /\ pc = "loop"
    /\ attempt <= API_RETRY_ATTEMPTS
    /\ pc' = "begin"
    /\ UNCHANGED <<isoVars, eqVars, events,
                   API_RETRY_ATTEMPTS, fn, attempt, httpCode, errorType, payload, error,
                   result, errorMsg, forecast, airQuality, open, timeoutSet, begins,
                   ends, gets, delays, errSets, retSite, entry, hourlyWritten,
                   dailyWritten>>

\* the loop condition fails: the code after the loop
getForecast_AfterLoop ==
    /\ fn = "getForecast"
    /\ pc = "loop"
    /\ ~(attempt <= API_RETRY_ATTEMPTS)
    /\ errorMsg' = <<"Unknown error after retries">>
    /\ errSets' = errSets + 1
    /\ result' = FALSE
    /\ retSite' = "after_loop"
    /\ pc' = "done"
    /\ UNCHANGED <<isoVars, eqVars, events,
                   API_RETRY_ATTEMPTS, fn, attempt, httpCode, errorType, payload, error,
                   forecast, airQuality, open, timeoutSet, begins, ends, gets, delays,
                   entry, hourlyWritten, dailyWritten>>

\* http.begin(client, url)
getForecast_Begin ==
    /\ fn = "getForecast"
    /\ pc = "begin"
    /\ open' = open + 1
    /\ begins' = begins + 1
    /\ timeoutSet' = FALSE
    /\ pc' = "setTimeout"
    /\ events' = Append(events, "begin")
    /\ UNCHANGED <<isoVars, eqVars,
                   API_RETRY_ATTEMPTS, fn, attempt, httpCode, errorType, payload, error,
                   result, errorMsg, forecast, airQuality, ends, gets, delays, errSets,
                   retSite, entry, hourlyWritten, dailyWritten>>

\* mutant: the timeout is not applied
getForecast_SetTimeoutMissing ==
    /\ fn = "getForecast"
    /\ pc = "setTimeout"
    /\ timeoutSet' = timeoutSet
    /\ pc' = "GET"
    /\ UNCHANGED <<isoVars, eqVars, events,
                   API_RETRY_ATTEMPTS, fn, attempt, httpCode, errorType, payload, error,
                   result, errorMsg, forecast, airQuality, open, begins, ends, gets,
                   delays, errSets, retSite, entry, hourlyWritten, dailyWritten>>

\* http.setTimeout(HTTP_CLIENT_TCP_TIMEOUT)
getForecast_SetTimeout ==
    /\ fn = "getForecast"
    /\ pc = "setTimeout"
    /\ timeoutSet' = TRUE
    /\ pc' = "GET"
    /\ events' = Append(events, "setTimeout")
    /\ UNCHANGED <<isoVars, eqVars,
                   API_RETRY_ATTEMPTS, fn, attempt, httpCode, errorType, payload, error,
                   result, errorMsg, forecast, airQuality, open, begins, ends, gets,
                   delays, errSets, retSite, entry, hourlyWritten, dailyWritten>>

\* int httpCode = http.GET(), and the test httpCode != HTTP_CODE_OK
getForecast_GET ==
    \E code \in HttpCodes :
        /\ fn = "getForecast"
        /\ pc = "GET"
        /\ httpCode' = code
        /\ gets' = gets + 1
        /\ pc' = IF code # HTTP_CODE_OK THEN "error" ELSE "getString"
        /\ events' = Append(events, "GET")
        /\ UNCHANGED <<isoVars, eqVars,
                       API_RETRY_ATTEMPTS, fn, attempt, errorType, payload, error,
                       result, errorMsg, forecast, airQuality, open, timeoutSet, begins,
                       ends, delays, errSets, retSite, entry, hourlyWritten,
                       dailyWritten>>

\* the request failed: build errorType
getForecast_ErrorType ==
    /\ fn = "getForecast"
    /\ pc = "error"
    /\ errorType' = getForecast_errorType(httpCode)
    /\ pc' = "endError"
    /\ UNCHANGED <<isoVars, eqVars, events,
                   API_RETRY_ATTEMPTS, fn, attempt, httpCode, payload, error, result,
                   errorMsg, forecast, airQuality, open, timeoutSet, begins, ends, gets,
                   delays, errSets, retSite, entry, hourlyWritten, dailyWritten>>

\* mutant: the connection of a failed request is not ended
getForecast_EndAfterErrorMissing ==
    /\ fn = "getForecast"
    /\ pc = "endError"
    /\ open' = open
    /\ ends' = ends
    /\ pc' = "decide"
    /\ UNCHANGED <<isoVars, eqVars, events,
                   API_RETRY_ATTEMPTS, fn, attempt, httpCode, errorType, payload, error,
                   result, errorMsg, forecast, airQuality, timeoutSet, begins, gets,
                   delays, errSets, retSite, entry, hourlyWritten, dailyWritten>>

\* http.end() after a failed request
getForecast_EndAfterError ==
    /\ fn = "getForecast"
    /\ pc = "endError"
    /\ open' = open - 1
    /\ ends' = ends + 1
    /\ pc' = "decide"
    /\ events' = Append(events, "end")
    /\ UNCHANGED <<isoVars, eqVars,
                   API_RETRY_ATTEMPTS, fn, attempt, httpCode, errorType, payload, error,
                   result, errorMsg, forecast, airQuality, timeoutSet, begins, gets,
                   delays, errSets, retSite, entry, hourlyWritten, dailyWritten>>

\* mutant: the retry is made at once, without the delay
getForecast_RetryNoDelay ==
    /\ fn = "getForecast"
    /\ pc = "decide"
    /\ getForecast_shouldRetry(httpCode, attempt, API_RETRY_ATTEMPTS)
    /\ delays' = delays
    /\ attempt' = attempt + 1
    /\ pc' = "loop"
    /\ UNCHANGED <<isoVars, eqVars, events,
                   API_RETRY_ATTEMPTS, fn, httpCode, errorType, payload, error, result,
                   errorMsg, forecast, airQuality, open, timeoutSet, begins, ends, gets,
                   errSets, retSite, entry, hourlyWritten, dailyWritten>>

\* mutant: the message of the failed attempt is stored before the retry
getForecast_RetrySetsErrorMsg ==
    /\ fn = "getForecast"
    /\ pc = "decide"
    /\ getForecast_shouldRetry(httpCode, attempt, API_RETRY_ATTEMPTS)
    /\ errorMsg' = errorType
    /\ errSets' = errSets + 1
    /\ delays' = delays + 1
    /\ attempt' = attempt + 1
    /\ pc' = "loop"
    /\ events' = Append(events, "delay")
    /\ UNCHANGED <<isoVars, eqVars,
                   API_RETRY_ATTEMPTS, fn, httpCode, errorType, payload, error, result,
                   forecast, airQuality, open, timeoutSet, begins, ends, gets,
                   retSite, entry, hourlyWritten, dailyWritten>>

\* retryable and attempts left: delay(API_RETRY_DELAY), continue
\* (the loop's attempt++)
getForecast_Retry ==
    /\ fn = "getForecast"
    /\ pc = "decide"
    /\ getForecast_shouldRetry(httpCode, attempt, API_RETRY_ATTEMPTS)
    /\ delays' = delays + 1
    /\ attempt' = attempt + 1
    /\ pc' = "loop"
    /\ events' = Append(events, "delay")
    /\ UNCHANGED <<isoVars, eqVars,
                   API_RETRY_ATTEMPTS, fn, httpCode, errorType, payload, error, result,
                   errorMsg, forecast, airQuality, open, timeoutSet, begins, ends, gets,
                   errSets, retSite, entry, hourlyWritten, dailyWritten>>

\* no more retries or non-retryable error: set errorMsg, return false
getForecast_Fail ==
    \E rssi \in RSSIValues :
        /\ fn = "getForecast"
        /\ pc = "decide"
        /\ ~getForecast_shouldRetry(httpCode, attempt, API_RETRY_ATTEMPTS)
        /\ errorMsg' = getForecast_errorMsg(errorType, rssi, attempt)
        /\ errSets' = errSets + 1
        /\ result' = FALSE
        /\ retSite' = "error"
        /\ pc' = "done"
        /\ UNCHANGED <<isoVars, eqVars, events,
                       API_RETRY_ATTEMPTS, fn, attempt, httpCode, errorType, payload,
                       error, forecast, airQuality, open, timeoutSet, begins, ends, gets,
                       delays, entry, hourlyWritten, dailyWritten>>

\* String payload = http.getString()
getForecast_GetString ==
    \E body \in FetchedForecastBodies :
        /\ fn = "getForecast"
        /\ pc = "getString"
        /\ payload' = body
        /\ pc' = "endBody"
        /\ UNCHANGED <<isoVars, eqVars, events,
                       API_RETRY_ATTEMPTS, fn, attempt, httpCode, errorType, error,
                       result, errorMsg, forecast, airQuality, open, timeoutSet, begins,
                       ends, gets, delays, errSets, retSite, entry, hourlyWritten,
                       dailyWritten>>

\* http.end() after the body was read
getForecast_EndAfterBody ==
    /\ fn = "getForecast"
    /\ pc = "endBody"
    /\ open' = open - 1
    /\ ends' = ends + 1
    /\ pc' = "deserialize"
    /\ events' = Append(events, "end")
    /\ UNCHANGED <<isoVars, eqVars,
                   API_RETRY_ATTEMPTS, fn, attempt, httpCode, errorType, payload, error,
                   result, errorMsg, forecast, airQuality, timeoutSet, begins, gets,
                   delays, errSets, retSite, entry, hourlyWritten, dailyWritten>>

\* mutant: the record is cleared when the body does not parse
getForecast_DeserializeClearsOnFailure ==
    LET d == deserializeForecast(payload, forecast)
    IN  /\ fn = "getForecast"
        /\ pc = "deserialize"
        /\ error' = d.error
        /\ forecast' = IF IsError(d.error) THEN om_resp_forecast_zero ELSE d.r
        /\ hourlyWritten' = d.hw
        /\ dailyWritten' = d.dw
        /\ errorMsg' = IF IsError(d.error) THEN getForecast_parseErrorMsg(d.error) ELSE errorMsg
        /\ errSets' = IF IsError(d.error) THEN errSets + 1 ELSE errSets
        /\ result' = ~IsError(d.error)
        /\ retSite' = IF IsError(d.error) THEN "parse" ELSE "ok"
        /\ pc' = "done"
        /\ UNCHANGED <<isoVars, eqVars, events,
                       API_RETRY_ATTEMPTS, fn, attempt, httpCode, errorType, payload,
                       airQuality, open, timeoutSet, begins, ends, gets, delays, entry>>

\* deserializeForecast(payload, forecast); on an error set errorMsg and return
\* false, else return true
getForecast_Deserialize ==
    LET d == deserializeForecast(payload, forecast)
    IN  /\ fn = "getForecast"
        /\ pc = "deserialize"
        /\ error' = d.error
        /\ forecast' = d.r
        /\ hourlyWritten' = d.hw
        /\ dailyWritten' = d.dw
        /\ errorMsg' = IF IsError(d.error) THEN getForecast_parseErrorMsg(d.error) ELSE errorMsg
        /\ errSets' = IF IsError(d.error) THEN errSets + 1 ELSE errSets
        /\ result' = ~IsError(d.error)
        /\ retSite' = IF IsError(d.error) THEN "parse" ELSE "ok"
        /\ pc' = "done"
        /\ UNCHANGED <<isoVars, eqVars, events,
                       API_RETRY_ATTEMPTS, fn, attempt, httpCode, errorType, payload,
                       airQuality, open, timeoutSet, begins, ends, gets, delays, entry>>

\* errorType as getAirQuality builds it from a code that is not HTTP_CODE_OK
getAirQuality_errorType(code) ==
    IF code > 0 THEN <<"HTTP ", ToString(code)>>
    ELSE IF code = -1 THEN <<"Connection Refused">>
    ELSE IF code = -2 THEN <<"Send Header Failed">>
    ELSE IF code = -3 THEN <<"Send Payload Failed">>
    ELSE IF code = -4 THEN <<"Not Connected">>
    ELSE IF code = -5 THEN <<"Connection Lost">>
    ELSE IF code = -6 THEN <<"No Stream">>
    ELSE IF code = -7 THEN <<"No HTTP Server">>
    ELSE IF code = -8 THEN <<"Too Less RAM">>
    ELSE IF code = -9 THEN <<"Encoding">>
    ELSE IF code = -10 THEN <<"Stream Write">>
    ELSE IF code = -11 THEN <<"Read Timeout">>
    ELSE <<"Unknown Error">>

\* mutant: the last attempt of the budget is retried as well
getAirQuality_shouldRetryLastToo(code, att, budget) ==
    isRetryableError(code) /\ att <= budget

\* the retry condition of getAirQuality
getAirQuality_shouldRetry(code, att, budget) == isRetryableError(code) /\ att < budget

\* errorMsg of getAirQuality when it gives up after a code that is not HTTP_CODE_OK
getAirQuality_errorMsg(type, rssi, att) ==
    type \o <<" RSSI:", ToString(rssi), "dBm">>
         \o (IF att > 1 THEN <<" (after ", ToString(att), " attempts)">> ELSE <<>>)

\* errorMsg of getAirQuality when the body does not parse
getAirQuality_parseErrorMsg(err) == <<"JSON parse: ", err>>

\* the caller calls getAirQuality; the call sets up its client and its url and
\* starts the retry loop with attempt = 1
getAirQuality_Call ==
    /\ pc \in {"idle", "done"}
    /\ fn' = "getAirQuality"
    /\ pc' = "loop"
    /\ attempt' = 1
    /\ httpCode' = 0
    /\ errorType' = <<>>
    /\ payload' = NoBody
    /\ error' = "Ok"
    /\ result' = FALSE
    /\ retSite' = "none"
    /\ open' = 0
    /\ timeoutSet' = FALSE
    /\ begins' = 0
    /\ ends' = 0
    /\ gets' = 0
    /\ delays' = 0
    /\ errSets' = 0
    /\ entry' = [errorMsg |-> errorMsg, forecast |-> forecast, airQuality |-> airQuality]
    /\ hourlyWritten' = {}
    /\ dailyWritten' = {}
    /\ events' = <<>>
    /\ UNCHANGED <<isoVars, eqVars,
                   API_RETRY_ATTEMPTS, errorMsg, forecast, airQuality>>

\* the loop condition holds: the body runs
getAirQuality_LoopEnter ==
    /\ fn = "getAirQuality"
    /\ pc = "loop"
    /\ attempt <= API_RETRY_ATTEMPTS
    /\ pc' = "begin"
    /\ UNCHANGED <<isoVars, eqVars, events,
                   API_RETRY_ATTEMPTS, fn, attempt, httpCode, errorType, payload, error,
                   result, errorMsg, forecast, airQuality, open, timeoutSet, begins,
                   ends, gets, delays, errSets, retSite, entry, hourlyWritten,
                   dailyWritten>>

\* the loop condition fails: the code after the loop
getAirQuality_AfterLoop ==
    /\ fn = "getAirQuality"
    /\ pc = "loop"
    /\ ~(attempt <= API_RETRY_ATTEMPTS)
    /\ errorMsg' = <<"Unknown error after retries">>
    /\ errSets' = errSets + 1
    /\ result' = FALSE
    /\ retSite' = "after_loop"
    /\ pc' = "done"
    /\ UNCHANGED <<isoVars, eqVars, events,
                   API_RETRY_ATTEMPTS, fn, attempt, httpCode, errorType, payload, error,
                   forecast, airQuality, open, timeoutSet, begins, ends, gets, delays,
                   entry, hourlyWritten, dailyWritten>>

\* http.begin(client, url)
getAirQuality_Begin ==
    /\ fn = "getAirQuality"
    /\ pc = "begin"
    /\ open' = open + 1
    /\ begins' = begins + 1
    /\ timeoutSet' = FALSE
    /\ pc' = "setTimeout"
    /\ events' = Append(events, "begin")
    /\ UNCHANGED <<isoVars, eqVars,
                   API_RETRY_ATTEMPTS, fn, attempt, httpCode, errorType, payload, error,
                   result, errorMsg, forecast, airQuality, ends, gets, delays, errSets,
                   retSite, entry, hourlyWritten, dailyWritten>>

\* http.setTimeout(HTTP_CLIENT_TCP_TIMEOUT)
getAirQuality_SetTimeout ==
    /\ fn = "getAirQuality"
    /\ pc = "setTimeout"
    /\ timeoutSet' = TRUE
    /\ pc' = "GET"
    /\ events' = Append(events, "setTimeout")
    /\ UNCHANGED <<isoVars, eqVars,
                   API_RETRY_ATTEMPTS, fn, attempt, httpCode, errorType, payload, error,
                   result, errorMsg, forecast, airQuality, open, begins, ends, gets,
                   delays, errSets, retSite, entry, hourlyWritten, dailyWritten>>

\* int httpCode = http.GET(), and the test httpCode != HTTP_CODE_OK
getAirQuality_GET ==
    \E code \in HttpCodes :
        /\ fn = "getAirQuality"
        /\ pc = "GET"
        /\ httpCode' = code
        /\ gets' = gets + 1
        /\ pc' = IF code # HTTP_CODE_OK THEN "error" ELSE "getString"
        /\ events' = Append(events, "GET")
        /\ UNCHANGED <<isoVars, eqVars,
                       API_RETRY_ATTEMPTS, fn, attempt, errorType, payload, error,
                       result, errorMsg, forecast, airQuality, open, timeoutSet, begins,
                       ends, delays, errSets, retSite, entry, hourlyWritten,
                       dailyWritten>>

\* the request failed: build errorType
getAirQuality_ErrorType ==
    /\ fn = "getAirQuality"
    /\ pc = "error"
    /\ errorType' = getAirQuality_errorType(httpCode)
    /\ pc' = "endError"
    /\ UNCHANGED <<isoVars, eqVars, events,
                   API_RETRY_ATTEMPTS, fn, attempt, httpCode, payload, error, result,
                   errorMsg, forecast, airQuality, open, timeoutSet, begins, ends, gets,
                   delays, errSets, retSite, entry, hourlyWritten, dailyWritten>>

\* http.end() after a failed request
getAirQuality_EndAfterError ==
    /\ fn = "getAirQuality"
    /\ pc = "endError"
    /\ open' = open - 1
    /\ ends' = ends + 1
    /\ pc' = "decide"
    /\ events' = Append(events, "end")
    /\ UNCHANGED <<isoVars, eqVars,
                   API_RETRY_ATTEMPTS, fn, attempt, httpCode, errorType, payload, error,
                   result, errorMsg, forecast, airQuality, timeoutSet, begins, gets,
                   delays, errSets, retSite, entry, hourlyWritten, dailyWritten>>

\* retryable and attempts left: delay(API_RETRY_DELAY), continue
\* (the loop's attempt++)
getAirQuality_Retry ==
    /\ fn = "getAirQuality"
    /\ pc = "decide"
    /\ getAirQuality_shouldRetry(httpCode, attempt, API_RETRY_ATTEMPTS)
    /\ delays' = delays + 1
    /\ attempt' = attempt + 1
    /\ pc' = "loop"
    /\ events' = Append(events, "delay")
    /\ UNCHANGED <<isoVars, eqVars,
                   API_RETRY_ATTEMPTS, fn, httpCode, errorType, payload, error, result,
                   errorMsg, forecast, airQuality, open, timeoutSet, begins, ends, gets,
                   errSets, retSite, entry, hourlyWritten, dailyWritten>>

\* no more retries or non-retryable error: set errorMsg, return false
getAirQuality_Fail ==
    \E rssi \in RSSIValues :
        /\ fn = "getAirQuality"
        /\ pc = "decide"
        /\ ~getAirQuality_shouldRetry(httpCode, attempt, API_RETRY_ATTEMPTS)
        /\ errorMsg' = getAirQuality_errorMsg(errorType, rssi, attempt)
        /\ errSets' = errSets + 1
        /\ result' = FALSE
        /\ retSite' = "error"
        /\ pc' = "done"
        /\ UNCHANGED <<isoVars, eqVars, events,
                       API_RETRY_ATTEMPTS, fn, attempt, httpCode, errorType, payload,
                       error, forecast, airQuality, open, timeoutSet, begins, ends, gets,
                       delays, entry, hourlyWritten, dailyWritten>>

\* String payload = http.getString()
getAirQuality_GetString ==
    \E body \in FetchedAirQualityBodies :
        /\ fn = "getAirQuality"
        /\ pc = "getString"
        /\ payload' = body
        /\ pc' = "endBody"
        /\ UNCHANGED <<isoVars, eqVars, events,
                       API_RETRY_ATTEMPTS, fn, attempt, httpCode, errorType, error,
                       result, errorMsg, forecast, airQuality, open, timeoutSet, begins,
                       ends, gets, delays, errSets, retSite, entry, hourlyWritten,
                       dailyWritten>>

\* http.end() after the body was read
getAirQuality_EndAfterBody ==
    /\ fn = "getAirQuality"
    /\ pc = "endBody"
    /\ open' = open - 1
    /\ ends' = ends + 1
    /\ pc' = "deserialize"
    /\ events' = Append(events, "end")
    /\ UNCHANGED <<isoVars, eqVars,
                   API_RETRY_ATTEMPTS, fn, attempt, httpCode, errorType, payload, error,
                   result, errorMsg, forecast, airQuality, timeoutSet, begins, gets,
                   delays, errSets, retSite, entry, hourlyWritten, dailyWritten>>

\* deserializeAirQuality(payload, airQuality); on an error set errorMsg and return
\* false, else return true
getAirQuality_Deserialize ==
    LET d == deserializeAirQuality(payload, airQuality)
    IN  /\ fn = "getAirQuality"
        /\ pc = "deserialize"
        /\ error' = d.error
        /\ airQuality' = d.r
        /\ errorMsg' = IF IsError(d.error) THEN getAirQuality_parseErrorMsg(d.error) ELSE errorMsg
        /\ errSets' = IF IsError(d.error) THEN errSets + 1 ELSE errSets
        /\ result' = ~IsError(d.error)
        /\ retSite' = IF IsError(d.error) THEN "parse" ELSE "ok"
        /\ pc' = "done"
        /\ UNCHANGED <<isoVars, eqVars, events,
                       API_RETRY_ATTEMPTS, fn, attempt, httpCode, errorType, payload,
                       forecast, open, timeoutSet, begins, ends, gets, delays, entry,
                       hourlyWritten, dailyWritten>>

\* a step of a running call
Step ==
    \/ getForecast_LoopEnter
    \/ getForecast_AfterLoop
    \/ getForecast_Begin
    \/ getForecast_SetTimeout
    \/ getForecast_GET
    \/ getForecast_ErrorType
    \/ getForecast_EndAfterError
    \/ getForecast_Retry
    \/ getForecast_Fail
    \/ getForecast_GetString
    \/ getForecast_EndAfterBody
    \/ getForecast_Deserialize
    \/ getAirQuality_LoopEnter
    \/ getAirQuality_AfterLoop
    \/ getAirQuality_Begin
    \/ getAirQuality_SetTimeout
    \/ getAirQuality_GET
    \/ getAirQuality_ErrorType
    \/ getAirQuality_EndAfterError
    \/ getAirQuality_Retry
    \/ getAirQuality_Fail
    \/ getAirQuality_GetString
    \/ getAirQuality_EndAfterBody
    \/ getAirQuality_Deserialize

Next ==
    \/ getForecast_Call
    \/ getAirQuality_Call
    \/ Step

Spec == Init /\ [][Next]_vars

\* the first call after construction
FirstCall_getForecast == pc = "idle" /\ getForecast_Call
FirstCall_getAirQuality == pc = "idle" /\ getAirQuality_Call

NextFirstCall ==
    \/ FirstCall_getForecast
    \/ FirstCall_getAirQuality
    \/ Step

\* one call from construction to its return.  A call is one blocking, sequential
\* thread of control: once running it takes its next step (each GET and each
\* delay completes)
FairSpecFirstCall == Init /\ [][NextFirstCall]_vars /\ WF_vars(Step)

----------------------------------------------------------------------------
(* Two scripted calls: getForecast, then getAirQuality, whose attempts are    *)
(* given the same outcomes in the same order                                *)

\* results of the parser on the body of a 200 response
ParseOutcomes == {"Ok", "InvalidInput", "EmptyInput"}

\* outcomes of one attempt: the code of http.GET() and, for 200, how the body parses
Outcomes ==
    {[code |-> c, parse |-> "none"] : c \in HttpCodes \ {HTTP_CODE_OK}}
        \cup {[code |-> HTTP_CODE_OK, parse |-> e] : e \in ParseOutcomes}

\* outcomes after which a call may make another attempt
OutcomesRetried == {o \in Outcomes : isRetryableError(o.code)}

\* scripts for a budget of n attempts: outcomes up to the first one that is never
\* retried, n at most
ScriptsOf(n) ==
    IF n = 0 THEN {<<>>}
    ELSE UNION {{[i \in 1 .. len |-> IF i < len THEN pre[i] ELSE last] :
                    pre \in [1 .. len - 1 -> OutcomesRetried],
                    last \in IF len = n THEN Outcomes ELSE Outcomes \ OutcomesRetried} :
                len \in 1 .. n}

InitScripted == InitCall /\ script \in ScriptsOf(API_RETRY_ATTEMPTS)

\* what a call did, as its caller and the network see it
Observables ==
    [result |-> result, errorMsg |-> errorMsg, retSite |-> retSite, httpCode |-> httpCode,
     error |-> error, attempt |-> attempt, gets |-> gets, delays |-> delays,
     begins |-> begins, ends |-> ends, events |-> events]

\* the step gives the attempt the outcome the script has for it
FollowsScript ==
    /\ gets' = gets + 1 => (gets' <= Len(script) /\ httpCode' = script[gets'].code)
    /\ pc = "getString" => deserializeJson(payload').error = script[gets].parse

ScriptedFirstCall == pc = "idle" /\ getForecast_Call

ScriptedStep == Step /\ FollowsScript

\* the caller notes what getForecast did
NoteFirst ==
    /\ fn = "getForecast"
    /\ pc = "done"
    /\ first.fn = "none"
    /\ first' = [fn |-> fn, did |-> Observables]
    /\ UNCHANGED <<cfgVars, callVars, countVars, parseVars, callerVars, isoVars, events,
                   script>>

ScriptedSecondCall ==
    /\ fn = "getForecast"
    /\ first.fn = "getForecast"
    /\ getAirQuality_Call

NextScripted ==
    \/ ScriptedFirstCall
    \/ ScriptedStep
    \/ NoteFirst
    \/ ScriptedSecondCall

SpecScripted == InitScripted /\ [][NextScripted]_vars

----------------------------------------------------------------------------
(* The parser called on its own: deserializeForecast and                    *)
(* deserializeAirQuality are public functions of api_response.h             *)

\* the caller calls deserializeForecast(json, forecast) with one of the bodies
DeserializeForecastOf(bodies) ==
    \E json \in bodies :
        LET d == deserializeForecast(json, forecast)
        IN  /\ fn' = "deserializeForecast"
            /\ pc' = "parsed"
            /\ payload' = json
            /\ error' = d.error
            /\ forecast' = d.r
            /\ hourlyWritten' = d.hw
            /\ dailyWritten' = d.dw
            /\ UNCHANGED <<isoVars, eqVars, events,
                           cfgVars, attempt, httpCode, errorType, result, retSite,
                           entry, countVars, errorMsg, airQuality>>

\* the caller calls deserializeAirQuality(json, airQuality) with one of the bodies
DeserializeAirQualityOf(bodies) ==
    \E json \in bodies :
        LET d == deserializeAirQuality(json, airQuality)
        IN  /\ fn' = "deserializeAirQuality"
            /\ pc' = "parsed"
            /\ payload' = json
            /\ error' = d.error
            /\ airQuality' = d.r
            /\ UNCHANGED <<isoVars, eqVars, events,
                           cfgVars, attempt, httpCode, errorType, result, retSite,
                           entry, countVars, errorMsg, forecast, hourlyWritten,
                           dailyWritten>>

\* bodies with complete series, of all lengths
CallDeserializeForecast == DeserializeForecastOf(ForecastBodies \cup BadBodies)

CallDeserializeAirQuality == DeserializeAirQualityOf(AirQualityBodies \cup BadBodies)

InitParser == Init /\ API_RETRY_ATTEMPTS = MaxAttempts

NextParser == CallDeserializeForecast \/ CallDeserializeAirQuality

SpecParser == InitParser /\ [][NextParser]_vars

\* bodies with short series: complete ones, ones with members missing, wrongly
\* typed or of different lengths, texts whose root is no object, and texts that
\* are not JSON
ShortForecastBodies ==
    {ValidBody(ForecastRoot(2, 1, g)) : g \in Generations} \cup {EmptyObjectBody}
        \cup PartialForecastBodies \cup NonObjectBodies \cup BadBodies

ShortAirQualityBodies ==
    AirQualityBodies \cup PartialAirQualityBodies \cup NonObjectBodies \cup BadBodies

CallDeserializeForecastPartial == DeserializeForecastOf(ShortForecastBodies)

CallDeserializeAirQualityPartial == DeserializeAirQualityOf(ShortAirQualityBodies)

NextParserPartial == CallDeserializeForecastPartial \/ CallDeserializeAirQualityPartial

SpecParserPartial == InitParser /\ [][NextParserPartial]_vars

----------------------------------------------------------------------------
(* parseISO8601 called on its own: it is a public function of               *)
(* api_response.h                                                           *)

\* calendar fields of the texts parseISO8601 is called with
Years == {1970, 2024}
Months == {1, 2, 12}
Days == {1, 15, 28}
Hours == {0, 12, 14, 23}
Minutes == {0, 30, 59}

\* texts YYYY-MM-DD and YYYY-MM-DDTHH:MM
DateTexts == {DateText(y, m, d) : y \in Years, m \in Months, d \in Days}
DateTimeTexts ==
    {DateTimeText(y, m, d, h, mi) : y \in Years, m \in Months, d \in Days, h \in Hours,
                                    mi \in Minutes}

\* texts of neither shape: the empty text, n/a, 2024, 2024-01, 2024-01-,
\* 2024/01/15, T14:00, 2024-01-15x, 2024-01-15T, 2024-01-15T14, 2024-01-15T14:,
\* 2024-01-15T14-30, 2024-01-15T14:30x, 2024-01-15T14:30:45
OtherTexts ==
    {<<>>, GarbageText, <<Digits(2024)>>, <<Digits(2024), Char("-"), Digits(1)>>,
     <<Digits(2024), Char("-"), Digits(1), Char("-")>>,
     <<Digits(2024), Char("/"), Digits(1), Char("/"), Digits(15)>>,
     <<Char("T"), Digits(14), Char(":"), Digits(0)>>,
     DateText(2024, 1, 15) \o <<Char("x")>>,
     DateText(2024, 1, 15) \o <<Char("T")>>,
     DateText(2024, 1, 15) \o <<Char("T"), Digits(14)>>,
     DateText(2024, 1, 15) \o <<Char("T"), Digits(14), Char(":")>>,
     DateText(2024, 1, 15) \o <<Char("T"), Digits(14), Char("-"), Digits(30)>>,
     DateTimeText(2024, 1, 15, 14, 30) \o <<Char("x")>>,
     DateTimeText(2024, 1, 15, 14, 30) \o <<Char(":"), Digits(45)>>}

\* the caller calls parseISO8601(text)
CallParseISO8601 ==
    \E text \in DateTexts \cup DateTimeTexts \cup OtherTexts :
        /\ fn' = "parseISO8601"
        /\ pc' = "parsed"
        /\ isoInput' = text
        /\ isoTm' = TmOfScan[Sscanf(text)]
        /\ isoResult' = parseISO8601(text)
        /\ UNCHANGED <<eqVars, events, cfgVars, attempt, httpCode, errorType, payload, result,
                       retSite,
                       entry, countVars, parseVars, callerVars>>

NextISO8601 == CallParseISO8601

SpecISO8601 == InitParser /\ [][NextISO8601]_vars

\* a parseISO8601 call has returned
ISO8601Returned == fn = "parseISO8601" /\ pc = "parsed"

\* the text has exactly the shape YYYY-MM-DD
IsDateShape(text) ==
    /\ Len(text) = 5
    /\ IsDigits(text[1]) /\ IsChar(text[2], "-") /\ IsDigits(text[3])
    /\ IsChar(text[4], "-") /\ IsDigits(text[5])

\* the text has exactly the shape YYYY-MM-DDTHH:MM
IsDateTimeShape(text) ==
    /\ Len(text) = 9
    /\ IsDateShape(SubSeq(text, 1, 5))
    /\ IsChar(text[6], "T") /\ IsDigits(text[7]) /\ IsChar(text[8], ":")
    /\ IsDigits(text[9])

\* C13 (as claimed): parseISO8601 returns 0 for every text that has neither
\* exactly the shape YYYY-MM-DD nor exactly the shape YYYY-MM-DDTHH:MM.
C13_ZeroUnlessExactShape ==
    (ISO8601Returned /\ ~IsDateShape(isoInput) /\ ~IsDateTimeShape(isoInput)) =>
        isoResult = 0

\* the struct tm of the local calendar time y-m-d h:mi:00 with DST unspecified
CalendarTime(y, m, d, h, mi) ==
    [tm_year |-> y - 1900, tm_mon |-> m - 1, tm_mday |-> d, tm_hour |-> h, tm_min |-> mi,
     tm_sec |-> 0, tm_isdst |-> -1]

\* C14: for a text YYYY-MM-DD parseISO8601 hands mktime the calendar time 12:00:00
\* of that date, for a text YYYY-MM-DDTHH:MM the year, month, day, hour and minute
\* given with second 0, in both cases with tm_isdst = -1, and it returns what
\* mktime returns, with no offset added.
C14_NoonOrGivenTime ==
    ISO8601Returned =>
        /\ IsDateShape(isoInput) =>
               /\ isoTm = CalendarTime(isoInput[1].d, isoInput[3].d, isoInput[5].d, 12, 0)
               /\ isoResult = Mktime(isoTm)
        /\ IsDateTimeShape(isoInput) =>
               /\ isoTm = CalendarTime(isoInput[1].d, isoInput[3].d, isoInput[5].d,
                                       isoInput[7].d, isoInput[9].d)
               /\ isoResult = Mktime(isoTm)

\* 2024-01-15 was converted to noon of that day: 1705320000 = 19737 days and 12 hours
C14_Witness ==
    /\ ISO8601Returned
    /\ isoInput = DateText(2024, 1, 15)
    /\ isoTm.tm_hour = 12
    /\ isoResult = 19737 * 86400 + 12 * 3600

\* 2024-01-15T14:00 was converted to 14:00:00 of that day
C14_WitnessDateTime ==
    /\ ISO8601Returned
    /\ isoInput = DateTimeText(2024, 1, 15, 14, 0)
    /\ isoResult = 19737 * 86400 + 14 * 3600

----------------------------------------------------------------------------
(* Claims about the parser, checked under SpecParser                        *)

\* a deserializeForecast call has returned Ok
ForecastParsedOk == fn = "deserializeForecast" /\ pc = "parsed" /\ error = "Ok"

\* the lengths of the time arrays of the body last parsed
BodyHourlySize == Size(AsArray(Member(AsObject(Member(payload.root, "hourly")), "time")))
BodyDailySize == Size(AsArray(Member(AsObject(Member(payload.root, "daily")), "time")))

\* C8: deserializeForecast stores to hourly slots 0 .. min(length of the hourly
\* time array, 48) - 1 and to daily slots 0 .. min(length of the daily time array,
\* 8) - 1 and to no other index, and each of these slots holds the body's entry of
\* that index: a longer body is cut to its first 48 hourly and 8 daily entries.
C8_StoresWithinCapacity ==
    ForecastParsedOk =>
        /\ hourlyWritten = 0 .. Min(BodyHourlySize, OM_NUM_HOURLY) - 1
        /\ dailyWritten = 0 .. Min(BodyDailySize, OM_NUM_DAILY) - 1
        /\ \A i \in hourlyWritten : i < OM_NUM_HOURLY
        /\ \A i \in dailyWritten : i < OM_NUM_DAILY
        /\ \A i \in 0 .. Min(BodyHourlySize, OM_NUM_HOURLY) - 1 :
               forecast.hourly[i] = HourlyEntry(AsObject(Member(payload.root, "hourly")), i)
        /\ \A i \in 0 .. Min(BodyDailySize, OM_NUM_DAILY) - 1 :
               forecast.daily[i] = DailyEntry(AsObject(Member(payload.root, "daily")), i)

\* a body with more entries than the capacity was parsed
C8_Witness ==
    /\ ForecastParsedOk
    /\ BodyHourlySize > OM_NUM_HOURLY
    /\ BodyDailySize > OM_NUM_DAILY
    /\ Cardinality(hourlyWritten) = OM_NUM_HOURLY
    /\ Cardinality(dailyWritten) = OM_NUM_DAILY

\* C9 (as claimed): after a successful deserializeForecast of a body with k hourly
\* (daily) entries, every hourly (daily) slot of index >= k holds the zero values.
C9_TrailingSlotsZero ==
    ForecastParsedOk =>
        /\ \A i \in DOMAIN forecast.hourly :
               i >= BodyHourlySize => forecast.hourly[i] = om_hourly_zero
        /\ \A i \in DOMAIN forecast.daily :
               i >= BodyDailySize => forecast.daily[i] = om_daily_zero

\* C10: after every successful deserializeForecast, current.sunrise equals
\* daily[0].sunrise and current.sunset equals daily[0].sunset in the record.
C10_SunCopiedFromDaily0 ==
    ForecastParsedOk =>
        /\ forecast.current.sunrise = forecast.daily[0].sunrise
        /\ forecast.current.sunset = forecast.daily[0].sunset

\* a body without a daily series was parsed into a record whose daily[0] had
\* been filled by an earlier parse
C10_Witness ==
    /\ ForecastParsedOk
    /\ BodyDailySize = 0
    /\ forecast.daily[0].sunrise # 0
    /\ forecast.current.sunrise = forecast.daily[0].sunrise

----------------------------------------------------------------------------
(* Claims about the fetch client, checked under Spec                        *)

\* a call of getForecast or getAirQuality is running or has returned
InCall == fn \in {"getForecast", "getAirQuality"}

\* the call has returned
Returned == InCall /\ pc = "done"

\* the four transport-level codes
TransportCodes == {-1, -4, -5, -11}

\* the step is an http.GET()
IssuesGet == gets' = gets + 1

\* positions of a call after its latest http.GET()
AfterGet == {"error", "endError", "decide", "getString", "endBody", "deserialize", "done"}

\* C1: a call issues at most API_RETRY_ATTEMPTS GETs, and a GET after the first
\* is issued only if the attempt before it failed with a retryable code and was
\* not the last of the budget: on the first success, the first non-retryable
\* failure and the failure of attempt API_RETRY_ATTEMPTS no further GET follows.
C1_AtMostBudgetGets ==
    /\ [](InCall => gets <= API_RETRY_ATTEMPTS)
    /\ [][IssuesGet =>
            /\ gets < API_RETRY_ATTEMPTS
            /\ gets >= 1 => (httpCode # HTTP_CODE_OK /\ isRetryableError(httpCode))]_vars

\* a call that used its whole budget of more than one attempt has returned
C1_Witness ==
    /\ Returned
    /\ API_RETRY_ATTEMPTS > 1
    /\ gets = API_RETRY_ATTEMPTS

\* C2: a second or later GET follows only an attempt that ended with -1, -4, -5
\* or -11; after any other outcome that is not 200 the call does nothing but
\* close the connection and return false: no delay and no GET follow it.
C2_RetryOnlyTransportCodes ==
    /\ [][(IssuesGet /\ gets >= 1) => httpCode \in TransportCodes]_vars
    /\ [][(InCall /\ pc \in AfterGet /\ pc # "done" /\ httpCode # HTTP_CODE_OK
              /\ httpCode \notin TransportCodes) =>
            /\ gets' = gets
            /\ delays' = delays
            /\ attempt' = attempt
            /\ pc' \in {"endError", "decide", "done"}
            /\ pc' = "done" => (result' = FALSE /\ retSite' = "error")]_vars

\* a call has returned false after a non-retryable code on a second or later attempt
C2_Witness ==
    /\ Returned
    /\ ~result
    /\ httpCode \in {404, -2, -3, -8, -9}
    /\ gets >= 2

\* C3: a call that returns true has made one delay before each GET but the first
\* and none after the last, has not set errorMsg, and has filled the caller's
\* record from the body; so after API_RETRY_ATTEMPTS - 1 retryable failures and a
\* 200 with a parseable body exactly API_RETRY_ATTEMPTS - 1 delays were made.
C3_SuccessAfterRetries ==
    /\ (InCall /\ pc \in {"loop", "begin", "setTimeout", "GET"}) => delays = gets
    /\ (InCall /\ pc \in AfterGet /\ gets >= 1) => delays = gets - 1
    /\ (Returned /\ result) =>
        /\ httpCode = HTTP_CODE_OK
        /\ payload.syntax = "valid"
        /\ delays = gets - 1
        /\ gets = API_RETRY_ATTEMPTS => delays = API_RETRY_ATTEMPTS - 1
        /\ errSets = 0
        /\ errorMsg = entry.errorMsg
        /\ fn = "getForecast" => forecast = deserializeForecast(payload, entry.forecast).r
        /\ fn = "getAirQuality" =>
               airQuality = deserializeAirQuality(payload, entry.airQuality).r

\* the last attempt of a budget of three succeeded
C3_Witness ==
    /\ Returned
    /\ result
    /\ API_RETRY_ATTEMPTS = 3
    /\ gets = 3
    /\ delays = 2

\* C4: when the body of a 200 response does not parse, the step that parses it
\* returns false: no delay and no GET follow, whatever the attempt number.
C4_ParseFailureIsTerminal ==
    /\ [][(InCall /\ pc = "deserialize" /\ payload.syntax # "valid") =>
            /\ pc' = "done"
            /\ result' = FALSE
            /\ retSite' = "parse"
            /\ gets' = gets
            /\ delays' = delays
            /\ attempt' = attempt]_vars
    /\ []((Returned /\ retSite = "parse") =>
            (~result /\ gets = attempt /\ delays = gets - 1 /\ httpCode = HTTP_CODE_OK))

\* a body that does not parse arrived on a second or later attempt with budget left
C4_Witness ==
    /\ Returned
    /\ retSite = "parse"
    /\ gets >= 2
    /\ gets < API_RETRY_ATTEMPTS

\* C5: at most one connection is open at any time, http.begin is called only with
\* none open, http.end only with one open, and none is open when the call returns:
\* each http.begin is followed by exactly one http.end.
C5_BeginEndPaired ==
    InCall =>
        /\ open \in {0, 1}
        /\ begins - ends = open
        /\ open = 1 <=> pc \in {"setTimeout", "GET", "error", "endError", "getString", "endBody"}
        /\ pc = "done" => (open = 0 /\ begins = ends /\ begins = gets)

\* a call returned after closing three connections
C5_Witness ==
    /\ Returned
    /\ begins = 3
    /\ ends = 3
    /\ open = 0

\* the message carries an attempt count
HasAttemptCount(msg) ==
    \E i \in 1 .. Len(msg) - 2 : msg[i] = " (after " /\ msg[i + 2] = " attempts)"

\* the message carries the attempt count n
CarriesAttemptCount(msg, n) ==
    \E i \in 1 .. Len(msg) - 2 :
        msg[i] = " (after " /\ msg[i + 1] = ToString(n) /\ msg[i + 2] = " attempts)"

ReturnedSuccess == result /\ retSite = "ok" /\ httpCode = HTTP_CODE_OK
ReturnedExhausted ==
    /\ ~result
    /\ retSite = "error"
    /\ httpCode \in TransportCodes
    /\ gets = API_RETRY_ATTEMPTS
ReturnedNonRetryable ==
    /\ ~result
    /\ \/ retSite = "error" /\ httpCode # HTTP_CODE_OK /\ httpCode \notin TransportCodes
       \/ retSite = "parse" /\ httpCode = HTTP_CODE_OK

\* C7 (as claimed), checked under FairSpecFirstCall: every call eventually returns, and it
\* returns in one of exactly three ways: success, exhausted retries or
\* non-retryable failure.
C7_ReturnsInOneOfThreeWays ==
    /\ [](Returned => (ReturnedSuccess \/ ReturnedExhausted \/ ReturnedNonRetryable))
    /\ (InCall /\ pc # "done") ~> Returned

\* C7, the part that holds under FairSpecFirstCall: every call eventually returns.
C7_EveryCallReturns == (InCall /\ pc # "done") ~> Returned

----------------------------------------------------------------------------
(* Claims about the parser on partial payloads, checked under               *)
(* SpecParserPartial                                                        *)

\* a deserializeForecast or deserializeAirQuality call has returned
ParserReturned == fn \in {"deserializeForecast", "deserializeAirQuality"} /\ pc = "parsed"

\* the body last parsed is valid JSON with an object at its root
BodyIsObject == payload.syntax = "valid" /\ payload.root.t = "obj"

\* C11 (as claimed): deserializeForecast and deserializeAirQuality return a parse
\* failure when the text is not valid JSON and also when it is valid JSON whose
\* root is not an object (an array, a number, a string or null).
C11_FailsUnlessRootObject ==
    (ParserReturned /\ ~BodyIsObject) => error # "Ok"

\* a deserializeForecast call has returned
ForecastParsed == fn = "deserializeForecast" /\ pc = "parsed"

\* types of the values of a payload
IsNumber(v) == v.t \in {"int", "float"}
IsInteger(v) == v.t = "int"
IsString(v) == v.t = "str"

\* the value is no string, or a string without a date: the empty one or n/a
NoDate(v) == IF IsString(v) THEN v.s \in {<<>>, GarbageText} ELSE TRUE

\* the scalar members of the payload: <<field of the record, key>> of the
\* decimal ones, <<field of the record, key, documented default>> of the integer
\* ones, <<field of the record, key>> of the times
CurrentDecimals ==
    {<<"temp", "temperature_2m">>, <<"feels_like", "apparent_temperature">>,
     <<"pressure", "pressure_msl">>, <<"wind_speed", "wind_speed_10m">>,
     <<"wind_gust", "wind_gusts_10m">>, <<"uvi", "uv_index">>}
CurrentIntegers ==
    {<<"humidity", "relative_humidity_2m", 0>>, <<"wind_deg", "wind_direction_10m", 0>>,
     <<"weather_code", "weather_code", 0>>, <<"visibility", "visibility", 10000>>,
     <<"is_day", "is_day", 1>>}
HourlyDecimals ==
    {<<"temp", "temperature_2m">>, <<"pop", "precipitation_probability">>,
     <<"precipitation", "precipitation">>}
HourlyIntegers ==
    {<<"humidity", "relative_humidity_2m", 0>>, <<"weather_code", "weather_code", 0>>,
     <<"is_day", "is_day", 1>>}
HourlyTimes == {<<"dt", "time">>}
DailyDecimals ==
    {<<"temp_max", "temperature_2m_max">>, <<"temp_min", "temperature_2m_min">>,
     <<"pop", "precipitation_probability_max">>, <<"precipitation", "precipitation_sum">>,
     <<"uvi", "uv_index_max">>}
DailyIntegers == {<<"weather_code", "weather_code", 0>>}
DailyTimes == {<<"dt", "time">>, <<"sunrise", "sunrise">>, <<"sunset", "sunset">>}

\* C12: for every payload that is a valid JSON object deserializeForecast returns
\* Ok, whatever is missing or wrongly typed, and every scalar that is missing or
\* wrongly typed has its default in the record: timezone "UTC", visibility 10000,
\* is_day 1, every other number 0, and a timestamp without a date 0.
C12_ObjectPayloadGetsDefaults ==
    (ForecastParsed /\ BodyIsObject) =>
        LET doc == payload.root
            current == Member(doc, "current")
            hourly == Member(doc, "hourly")
            daily == Member(doc, "daily")
        IN  /\ error = "Ok"
            /\ ~IsNumber(Member(doc, "latitude")) => forecast.lat = 0
            /\ ~IsNumber(Member(doc, "longitude")) => forecast.lon = 0
            /\ ~IsString(Member(doc, "timezone")) => forecast.timezone = "UTC"
            /\ ~IsInteger(Member(doc, "utc_offset_seconds")) => forecast.timezone_offset = 0
            /\ \A f \in CurrentDecimals :
                   ~IsNumber(Member(current, f[2])) => forecast.current[f[1]] = 0
            /\ \A f \in CurrentIntegers :
                   ~IsInteger(Member(current, f[2])) => forecast.current[f[1]] = f[3]
            /\ \A i \in hourlyWritten :
                   /\ \A f \in HourlyDecimals :
                          ~IsNumber(Elem(Member(hourly, f[2]), i)) =>
                              forecast.hourly[i][f[1]] = 0
                   /\ \A f \in HourlyIntegers :
                          ~IsInteger(Elem(Member(hourly, f[2]), i)) =>
                              forecast.hourly[i][f[1]] = f[3]
                   /\ \A f \in HourlyTimes :
                          NoDate(Elem(Member(hourly, f[2]), i)) =>
                              forecast.hourly[i][f[1]] = 0
            /\ \A i \in dailyWritten :
                   /\ \A f \in DailyDecimals :
                          ~IsNumber(Elem(Member(daily, f[2]), i)) =>
                              forecast.daily[i][f[1]] = 0
                   /\ \A f \in DailyIntegers :
                          ~IsInteger(Elem(Member(daily, f[2]), i)) =>
                              forecast.daily[i][f[1]] = f[3]
                   /\ \A f \in DailyTimes :
                          NoDate(Elem(Member(daily, f[2]), i)) =>
                              forecast.daily[i][f[1]] = 0

\* the body whose members are all wrongly typed was parsed, and the record holds
\* the defaults where the body has no value of the right type
C12_Witness ==
    /\ ForecastParsed
    /\ payload.root = WronglyTypedRoot
    /\ error = "Ok"
    /\ forecast.current.visibility = 10000
    /\ forecast.current.humidity = 0
    /\ forecast.timezone = "UTC"
    /\ forecast.hourly[0].is_day = 1
    /\ forecast.daily[1].weather_code = 61

\* a deserializeAirQuality call has returned
AirQualityParsed == fn = "deserializeAirQuality" /\ pc = "parsed"

\* the member current.us_aqi of the body last parsed, null when there is none
BodyUsAqi == Member(Member(payload.root, "current"), "us_aqi")

\* C15: on a valid JSON object deserializeAirQuality returns Ok and sets aqi to
\* the integer at current.us_aqi, whatever its value (900 and -5 included), and
\* to 0 when current or current.us_aqi is absent.
C15_AqiFromUsAqiOrZero ==
    (AirQualityParsed /\ BodyIsObject) =>
        /\ error = "Ok"
        /\ IsInteger(BodyUsAqi) => airQuality.aqi = BodyUsAqi.v
        /\ BodyUsAqi = JNull => airQuality.aqi = 0

\* an index above 500 was parsed
C15_Witness ==
    /\ AirQualityParsed
    /\ error = "Ok"
    /\ BodyIsObject
    /\ BodyUsAqi = JInt(900)
    /\ airQuality.aqi = 900

\* the body {} , without current, was parsed
C15_WitnessAbsent ==
    /\ AirQualityParsed
    /\ payload = EmptyObjectBody
    /\ airQuality.aqi = 0

\* the decimal value of a JSON number, in tenths
Tenths(v) == IF v.t = "float" THEN v.v10 ELSE 10 * v.v

\* C17: the number of hourly (daily) entries stored is the smaller of the length
\* of the time array and the capacity, whatever the lengths of the sibling
\* arrays; in a stored entry i a field whose array has no element i holds its
\* default (1 for is_day, else 0), a field whose array has a number (integer
\* for the integer fields) at i holds that number, and the parse returns Ok.
C17_SiblingsOfOtherLengths ==
    (ForecastParsed /\ BodyIsObject) =>
        LET hourly == Member(payload.root, "hourly")
            daily == Member(payload.root, "daily")
        IN  /\ error = "Ok"
            /\ hourlyWritten = 0 .. Min(Size(Member(hourly, "time")), OM_NUM_HOURLY) - 1
            /\ dailyWritten = 0 .. Min(Size(Member(daily, "time")), OM_NUM_DAILY) - 1
            /\ \A i \in hourlyWritten :
                   /\ \A f \in HourlyDecimals :
                          LET a == Member(hourly, f[2])
                          IN  /\ i >= Size(a) => forecast.hourly[i][f[1]] = 0
                              /\ (i < Size(a) /\ IsNumber(Elem(a, i))) =>
                                     forecast.hourly[i][f[1]] = Tenths(Elem(a, i))
                   /\ \A f \in HourlyIntegers :
                          LET a == Member(hourly, f[2])
                          IN  /\ i >= Size(a) => forecast.hourly[i][f[1]] = f[3]
                              /\ (i < Size(a) /\ IsInteger(Elem(a, i))) =>
                                     forecast.hourly[i][f[1]] = Elem(a, i).v
            /\ \A i \in dailyWritten :
                   /\ \A f \in DailyDecimals :
                          LET a == Member(daily, f[2])
                          IN  /\ i >= Size(a) => forecast.daily[i][f[1]] = 0
                              /\ (i < Size(a) /\ IsNumber(Elem(a, i))) =>
                                     forecast.daily[i][f[1]] = Tenths(Elem(a, i))
                   /\ \A f \in DailyIntegers :
                          LET a == Member(daily, f[2])
                          IN  /\ i >= Size(a) => forecast.daily[i][f[1]] = f[3]
                              /\ (i < Size(a) /\ IsInteger(Elem(a, i))) =>
                                     forecast.daily[i][f[1]] = Elem(a, i).v
                   /\ \A f \in DailyTimes :
                          i >= Size(Member(daily, f[2])) => forecast.daily[i][f[1]] = 0

\* the body with three hourly times, one temperature, no humidity array, five
\* probabilities and two is_day values was parsed: three entries are stored, the
\* third with the defaults for temperature, humidity and is_day and with the
\* third probability
C17_Witness ==
    /\ ForecastParsed
    /\ error = "Ok"
    /\ payload.root = MismatchedRoot
    /\ hourlyWritten = {0, 1, 2}
    /\ dailyWritten = {0, 1}
    /\ forecast.hourly[0].temp = 111
    /\ forecast.hourly[2].temp = 0
    /\ forecast.hourly[2].humidity = 0
    /\ forecast.hourly[2].is_day = 1
    /\ forecast.hourly[2].pop = 300
    /\ forecast.daily[1].sunrise = 0
    /\ forecast.daily[1].uvi = 42

\* the member current.pressure_msl of the body last parsed, null when there is none
BodyPressure == Member(Member(payload.root, "current"), "pressure_msl")

\* n is x10 tenths with the fraction cut off, towards zero: n is the integer of
\* the same sign as x10 that is nearest to x10 / 10 from the side of zero
IsTruncationOf(n, x10) ==
    IF x10 >= 0 THEN 10 * n <= x10 /\ x10 < 10 * n + 10
    ELSE 10 * n >= x10 /\ x10 > 10 * n - 10

\* C18: current.pressure is the value of pressure_msl with its fraction cut off
\* towards zero, never rounded to the nearest integer (1013.9 gives 1013, -1013.9
\* gives -1013, -0.5 gives 0), and 0 when pressure_msl is absent or no number.
C18_PressureTruncated ==
    (ForecastParsed /\ BodyIsObject) =>
        /\ IsNumber(BodyPressure) =>
               IsTruncationOf(forecast.current.pressure, Tenths(BodyPressure))
        /\ ~IsNumber(BodyPressure) => forecast.current.pressure = 0

\* 1013.9 was parsed to 1013
C18_Witness ==
    /\ ForecastParsed
    /\ error = "Ok"
    /\ BodyPressure = JFloat(10139)
    /\ forecast.current.pressure = 1013

\* -1013.9 was parsed to -1013
C18_WitnessNegative ==
    /\ ForecastParsed
    /\ error = "Ok"
    /\ BodyPressure = JFloat(0 - 10139)
    /\ forecast.current.pressure = 0 - 1013

----------------------------------------------------------------------------
(* Further claims about the fetch client, checked under Spec                *)

\* C16: every http.GET() is issued on an open connection whose timeout was set
\* after the http.begin of the same attempt (each http.begin starts a connection
\* without the timeout, only http.setTimeout applies it), on the first attempt
\* and on every retry; and from the http.setTimeout to the http.end of an attempt
\* the timeout stays applied.
C16_TimeoutSetBeforeGet ==
    /\ [][IssuesGet => (open = 1 /\ timeoutSet /\ begins = gets + 1)]_vars
    /\ [][(begins' = begins + 1) => (~timeoutSet' /\ pc' = "setTimeout")]_vars
    /\ []((InCall /\ pc = "GET") => timeoutSet)

\* the GET of a third attempt was issued with the timeout set in that attempt
C16_Witness ==
    /\ InCall
    /\ attempt = 3
    /\ gets = 3
    /\ begins = 3
    /\ timeoutSet
    /\ pc \in {"error", "getString"}

\* C19 (as claimed): the code after the retry loop is never reached: whatever the
\* budget API_RETRY_ATTEMPTS and the outcomes of the attempts, no call returns
\* through it, none returns false with the message "Unknown error after retries",
\* and none returns false without having issued a GET.
C19_AfterLoopNeverReached ==
    /\ InCall => retSite # "after_loop"
    /\ (Returned /\ ~result) =>
           (errorMsg # <<"Unknown error after retries">> /\ gets >= 1)

\* C20: until a call returns true the caller's records are as they were when the
\* call started: a call that returns false, after a transport failure, an HTTP
\* status, exhausted retries or a body that does not parse, leaves them untouched,
\* and the only step that writes a record is the one that returns true.
C20_RecordUntouchedOnFailure ==
    /\ []((InCall /\ (pc # "done" \/ ~result)) =>
            (forecast = entry.forecast /\ airQuality = entry.airQuality))
    /\ [][(forecast' # forecast \/ airQuality' # airQuality) =>
            (pc' = "done" /\ result' /\ retSite' = "ok")]_vars

\* getForecast returned false on a body that does not parse, the record holding
\* the forecast of an earlier call
C20_Witness ==
    /\ Returned
    /\ fn = "getForecast"
    /\ ~result
    /\ retSite = "parse"
    /\ forecast # om_resp_forecast_zero
    /\ forecast = entry.forecast

\* getAirQuality returned false after exhausted retries, the record holding the
\* index of an earlier call
C20_WitnessAirQuality ==
    /\ Returned
    /\ fn = "getAirQuality"
    /\ ~result
    /\ retSite = "error"
    /\ gets = API_RETRY_ATTEMPTS
    /\ airQuality.aqi = 42

\* C21: a call assigns errorMsg in no step but the one that returns false, and
\* there once: while the call runs, retries included, errorMsg is what the caller
\* passed in; a call that returns false has assigned it exactly once, in its last
\* step; a call that returns true has not assigned it and leaves the caller's
\* errorMsg with its prior value.
C21_ErrorMsgAssignedOnceOnFailure ==
    /\ []((InCall /\ pc # "done") => (errSets = 0 /\ errorMsg = entry.errorMsg))
    /\ [][(InCall /\ pc # "done" /\ (errSets' # errSets \/ errorMsg' # errorMsg)) =>
            (errSets' = errSets + 1 /\ pc' = "done" /\ ~result')]_vars
    /\ []((Returned /\ ~result) => errSets = 1)
    /\ []((Returned /\ result) => (errSets = 0 /\ errorMsg = entry.errorMsg))

\* a call returned false after at least one retry, with a message other than the
\* one the caller passed in, assigned once
C21_Witness ==
    /\ Returned
    /\ ~result
    /\ delays >= 1
    /\ gets >= 2
    /\ errSets = 1
    /\ errorMsg # entry.errorMsg

\* a call returned true after at least one retry and left the message of an
\* earlier, failed call in place
C21_WitnessSuccess ==
    /\ Returned
    /\ result
    /\ delays >= 1
    /\ errSets = 0
    /\ errorMsg # <<>>
    /\ errorMsg = entry.errorMsg

----------------------------------------------------------------------------
(* Claims about the two fetch functions, checked under SpecScripted         *)

\* s is an initial part of t
IsPrefix(s, t) == Len(s) <= Len(t) /\ s = SubSeq(t, 1, Len(s))

\* getAirQuality runs, or has run, on the script getForecast ran on
SecondCall == fn = "getAirQuality" /\ first.fn = "getForecast"

\* C22: given the same budget and the same outcomes of the attempts, in order,
\* getAirQuality calls http.begin, http.setTimeout, http.GET, http.end and delay in
\* the order getForecast does, with no call more and, when it returns, none less,
\* and it returns the same boolean with the same error message after the same
\* numbers of GETs and delays.
C22_SameRetryStateMachine ==
    /\ SecondCall =>
        /\ IsPrefix(events, first.did.events)
        /\ gets <= first.did.gets
        /\ delays <= first.did.delays
    /\ (SecondCall /\ pc = "done") =>
        /\ result = first.did.result
        /\ errorMsg = first.did.errorMsg
        /\ gets = first.did.gets
        /\ delays = first.did.delays
        /\ begins = first.did.begins
        /\ ends = first.did.ends
        /\ events = first.did.events
        /\ Observables = first.did

\* both calls failed on their third attempt after two retries, with one message
C22_Witness ==
    /\ SecondCall
    /\ pc = "done"
    /\ ~result
    /\ gets = 3
    /\ delays = 2
    /\ first.did.gets = 3
    /\ errorMsg = first.did.errorMsg
    /\ CarriesAttemptCount(errorMsg, 3)

\* both calls returned true on a second attempt
C22_WitnessSuccess ==
    /\ SecondCall
    /\ pc = "done"
    /\ result
    /\ first.did.result
    /\ gets = 2
    /\ events = <<"begin", "setTimeout", "GET", "end", "delay",
                  "begin", "setTimeout", "GET", "end">>

\* both calls returned false on a body that does not parse, with one message
C22_WitnessParseFailure ==
    /\ SecondCall
    /\ pc = "done"
    /\ retSite = "parse"
    /\ first.did.retSite = "parse"
    /\ errorMsg = <<"JSON parse: ", "EmptyInput">>

====
